---- MODULE Spec2Model ----
(***************************************************************************)
(* Model of the recommendation engine of the DBD build optimizer           *)
(* (src/src/App.tsx): name normalisation, the mutex rules, the scoring     *)
(* function, the greedy optimizer (runOptimize) and the randomiser         *)
(* (makeRandomBuild).                                                      *)
(*                                                                         *)
(* Strings are sequences of characters.  A character is a one-letter       *)
(* string, or one of the tokens A_ACUTE / a_acute (precomposed letters     *)
(* U+00C1 / U+00E1) and COMB_ACUTE (the combining mark U+0301).            *)
(* Scores are kept in hundredths of a point (the code's 0.01 tie-breaker   *)
(* and the x.5 rate bonuses become integers); rates are in hundredths.     *)
(***************************************************************************)
EXTENDS Integers, Sequences, FiniteSets, TLC

(***************************************************************************)
(* Generic sequence helpers                                                *)
(***************************************************************************)
Range(s) == {s[i] : i \in 1..Len(s)}

Includes(s, x) == \E i \in 1..Len(s) : s[i] = x

\* the element of a one-element set
The(S) == CHOOSE x \in S : TRUE

Max2(a, b) == IF a >= b THEN a ELSE b

Min2(a, b) == IF a <= b THEN a ELSE b

(***************************************************************************)
(* The mutex tag strings of the program                                    *)
(***************************************************************************)
\* "exhaustion" and "scourge_hook", abbreviated
S_exhaustion == <<"e", "x", "h">>

S_scourge_hook == <<"s", "_", "h">>

(***************************************************************************)
(* Perk records.  meta.rate is [has, val] (val in hundredths), meta.tier   *)
(* is a string ("" when the field is absent), topForKillers a sequence of  *)
(* [slug, rank].                                                           *)
(***************************************************************************)
NoRate == [has |-> FALSE, val |-> 0]

Rate(v) == [has |-> TRUE, val |-> v]

MkPerk(id, name, role, tags, synergy, anti, tier, rate, top) ==
  [id |-> id, name |-> name, role |-> role, tags |-> tags, synergy |-> synergy,
   anti_synergy |-> anti, tier |-> tier, rate |-> rate, topForKillers |-> top]

(***************************************************************************)
(* The perks the catalogs are drawn from                                   *)
(***************************************************************************)
S_chase == <<"c", "h">>

S_heal == <<"h", "l">>

N_Alpha == <<"A", "l", "p", "h", "a">>

N_ALPHA_acute == <<"A_ACUTE", "L", "P", "H", "A">>

N_Beta == <<"B", "e", "t", "a">>

N_Gamma == <<"G", "a", "m", "m", "a">>

N_Delta == <<"D", "e", "l", "t", "a">>

N_Eps == <<"E", "p", "s">>

N_Zeta == <<"Z", "e", "t", "a">>

N_Kap == <<"K", "a", "p">>

N_Kob == <<"K", "o", "b">>

pAlpha == MkPerk(<<"a", "l", "p", "h", "a">>, N_Alpha, "survivor",
                 <<S_chase>>, <<>>, <<>>, "S", NoRate, <<>>)

pBeta == MkPerk(<<"b", "e", "t", "a">>, N_Beta, "survivor",
                <<S_chase>>, <<N_Alpha>>, <<>>, "B", NoRate, <<>>)

pGamma == MkPerk(<<"g", "a", "m", "m", "a">>, N_Gamma, "survivor",
                 <<S_exhaustion>>, <<>>, <<>>, "A", NoRate, <<>>)

pDelta == MkPerk(<<"d", "e", "l", "t", "a">>, N_Delta, "survivor",
                 <<<<"E", "x", "h">>>>,
                 <<>>, <<>>, "S", NoRate, <<>>)

pEps == MkPerk(<<"e", "p", "s">>, N_Eps, "survivor",
               <<>>, <<>>, <<N_Alpha>>, "", Rate(400), <<>>)

\* scores 5.47 like Eps when "heal" is not selected: -2 (tier D) + 6.51 + 0.96
pZeta == MkPerk(<<"z", "e", "t", "a">>, N_Zeta, "survivor",
                <<S_heal>>, <<>>, <<>>, "D", Rate(467), <<>>)

\* a second source's entry for Alpha: same name up to case and accent
pAlphaDup == MkPerk(<<"l", "p", "h", "a">>, N_ALPHA_acute, "survivor",
                    <<S_exhaustion, S_chase>>, <<>>, <<>>, "s", Rate(650), <<>>)

\* a killer perk that also holds the tag "exhaustion" (it exhausts survivors)
pKap == MkPerk(<<"k", "a", "p">>, N_Kap, "killer",
               <<S_scourge_hook, S_exhaustion>>, <<>>, <<>>, "A", NoRate,
               <<[slug |-> "nurse", rank |-> 1]>>)

pKob == MkPerk(<<"k", "o", "b">>, N_Kob, "killer",
               <<S_scourge_hook, S_chase>>, <<N_Kap>>, <<>>, "B", Rate(-50),
               <<[slug |-> "nurse", rank |-> 9]>>)

Universe == <<pAlpha, pBeta, pGamma, pDelta, pEps, pZeta, pAlphaDup, pKap, pKob>>

\* Lock / ban entries as a user's settings can hold them: names in another
\* case or with accents, and ids.
LockTokens ==
  <<<<"a", "l", "p", "h", "a">>, <<"K", "A", "P">>, N_Beta,
    <<"g", "a", "m", "m", "a">>, <<"D", "E", "L", "T", "A">>, N_Eps>>

\* "ALPHA" with an accent (the name of pAlpha and pAlphaDup), and "LPHA"
\* (the id of pAlphaDup only)
BanTokens == <<N_ALPHA_acute, <<"L", "P", "H", "A">>>>

(***************************************************************************)
(* normalize: str.toLowerCase().normalize("NFKD").replace(/[U+0300-U+036F]/g, "") *)
(***************************************************************************)
ToLowerMap ==
  ("A" :> "a") @@ ("B" :> "b") @@ ("G" :> "g") @@ ("D" :> "d") @@
  ("E" :> "e") @@ ("Z" :> "z") @@ ("K" :> "k") @@ ("L" :> "l") @@
  ("P" :> "p") @@ ("T" :> "t") @@ ("X" :> "x") @@ ("H" :> "h") @@ ("M" :> "m") @@
  ("A_ACUTE" :> "a_acute")

toLowerCase(str) ==
  [i \in 1..Len(str) |->
     IF str[i] \in DOMAIN ToLowerMap THEN ToLowerMap[str[i]] ELSE str[i]]

\* TM_SIGN is the trade mark sign U+2122: it has no lower case and its
\* compatibility decomposition is the two capitals T, M
Decompose(c) ==
  CASE c = "a_acute" -> <<"a", "COMB_ACUTE">>
    [] c = "A_ACUTE" -> <<"A", "COMB_ACUTE">>
    [] c = "TM_SIGN" -> <<"T", "M">>
    [] OTHER -> <<c>>

RECURSIVE NFKD(_)
NFKD(str) ==
  IF str = <<>> THEN <<>> ELSE Decompose(Head(str)) \o NFKD(Tail(str))

CombiningMarks == {"COMB_ACUTE"}

StripMarks(str) == SelectSeq(str, LAMBDA c : c \notin CombiningMarks)

normalizeSteps(str) == StripMarks(NFKD(toLowerCase(str)))

\* The strings the catalogs and the settings hold.
NormStrings ==
  UNION {{p.name, p.id} \cup Range(p.tags) \cup Range(p.synergy) \cup Range(p.anti_synergy) :
           p \in Range(Universe)}
  \cup Range(LockTokens) \cup Range(BanTokens)
  \cup {S_exhaustion, S_scourge_hook, S_chase, S_heal}

\* normalize, tabulated over NormStrings: TLC evaluates the table once; any
\* other string is computed step by step.
NormTable == [s \in NormStrings |-> normalizeSteps(s)]

normalize(str) == IF str \in NormStrings THEN NormTable[str] ELSE normalizeSteps(str)

(***************************************************************************)
(* Program constants                                                       *)
(***************************************************************************)
Roles == {"survivor", "killer"}

MUTEX_TAGS == [survivor |-> <<S_exhaustion>>, killer |-> <<S_scourge_hook>>]

\* TIER_BONUS, in hundredths of a point
TIER_BONUS ==
  [S |-> 1000, A |-> 600, B |-> 300, C |-> 0, D |-> -200, E |-> -400, F |-> -600]

\* String.prototype.toUpperCase on the tier labels the catalog uses
TierUpperMap == ("s" :> "S") @@ ("a" :> "A") @@ ("b" :> "B")

TierToUpperCase(raw) == IF raw \in DOMAIN TierUpperMap THEN TierUpperMap[raw] ELSE raw

SENTINEL == -999900

BUILD_SIZE == 4

\* mutant: the slice is forgotten
Slice04_NoCut(s) == s

\* arr.slice(0, 4)
Slice04(s) == SubSeq(s, 1, IF Len(s) < BUILD_SIZE THEN Len(s) ELSE BUILD_SIZE)

normTags(p) == [i \in 1..Len(p.tags) |-> normalize(p.tags[i])]

\* names of a list of perks, normalised (ctx.current.map(c => normalize(c.name)))
normNames(ps) == [i \in 1..Len(ps) |-> normalize(ps[i].name)]

(***************************************************************************)
(* isBanned / isBannedPerk                                                 *)
(***************************************************************************)
isBanned(banned, p) ==
  \E i \in 1..Len(banned) :
     \/ normalize(banned[i]) = normalize(p.name)
     \/ normalize(banned[i]) = normalize(p.id)

isLocked(locked, p) ==
  \E i \in 1..Len(locked) :
     \/ normalize(locked[i]) = normalize(p.name)
     \/ normalize(locked[i]) = normalize(p.id)

(***************************************************************************)
(* dedupeByName: keeps the first perk of every normalised name             *)
(***************************************************************************)
RECURSIVE dedupeFrom(_, _, _)
dedupeFrom(ps, seen, out) ==
  IF ps = <<>> THEN out
  ELSE LET key == normalize(Head(ps).name) IN
       IF key \notin seen
       THEN dedupeFrom(Tail(ps), seen \cup {key}, Append(out, Head(ps)))
       ELSE dedupeFrom(Tail(ps), seen, out)

dedupeByName(ps) == dedupeFrom(ps, {}, <<>>)

(***************************************************************************)
(* Meta scoring: tier, rate, killer focus (hundredths of a point)          *)
(***************************************************************************)
clamp(n, lo, hi) == Max2(lo, Min2(hi, n))

\* mutant: the rate is not clamped to [0, 5]
rateBonus_NoClamp(p) ==
  IF ~p.rate.has THEN 0
  ELSE (p.rate.val - 250) * 3

rateBonus(p) ==
  IF ~p.rate.has THEN 0
  ELSE (clamp(p.rate.val, 0, 500) - 250) * 3

tierBonus(p) ==
  LET key == TierToUpperCase(p.tier) IN
  IF key \in DOMAIN TIER_BONUS THEN TIER_BONUS[key] ELSE 0

\* Number(hit.rank ?? 99)
rankOf(hit) == IF "rank" \in DOMAIN hit THEN hit.rank ELSE 99

killerFocusBonus(p, slug) ==
  IF slug = "" THEN 0
  ELSE LET arr  == p.topForKillers
           hits == {i \in 1..Len(arr) : arr[i].slug = slug}
       IN IF hits = {} THEN 0
          ELSE LET hit == arr[CHOOSE i \in hits : \A j \in hits : i <= j]
               IN Max2(0, 14 - (rankOf(hit) - 1) * 2) * 100

(***************************************************************************)
(* Mutex test shared by scorePerk (step 4) and hasMutexConflict: the        *)
(* candidate holds a mutex tag of its role and some picked perk holds a    *)
(* tag that the candidate holds too and that is a mutex tag.               *)
(***************************************************************************)
mutexSet(role) == {normalize(MUTEX_TAGS[role][i]) : i \in 1..Len(MUTEX_TAGS[role])}

sharesMutexTag(cTags, mutex, picked) ==
  \E i \in 1..Len(picked) :
    \E t \in Range(normTags(picked[i])) : t \in cTags /\ t \in mutex

hasMutexConflict(candidate, picked) ==
  \E mutex \in {mutexSet(candidate.role)}, cTags \in {Range(normTags(candidate))} :
     LET candidateHasMutex == \E t \in cTags : t \in mutex
     IN IF ~candidateHasMutex THEN FALSE
        ELSE sharesMutexTag(cTags, mutex, picked)

(***************************************************************************)
(* scorePerk                                                               *)
(***************************************************************************)
Count(seq, set) == Cardinality({i \in 1..Len(seq) : seq[i] \in set})

tagScore(p, ctx) ==
  10 * 100 * The({Cardinality({i \in 1..Len(ctx.tags) : Includes(pTags, normalize(ctx.tags[i]))}) :
                    pTags \in {normTags(p)}})

\* mutant: the synergy step is missing
synergyScore_None(p, ctx) == 0

synergyScore(p, ctx) ==
  LET lockedNames  == [i \in 1..Len(ctx.locked) |-> normalize(ctx.locked[i])]
      currentNames == normNames(ctx.current)
  IN 8 * 100 * The({Count(lockedNames \o currentNames, related) :
                      related \in {{normalize(p.synergy[i]) : i \in 1..Len(p.synergy)}}})

\* mutant: the penalty also counts the locked names, as the synergy step does
antiScore_CountsLocked(p, ctx) ==
  LET lockedNames  == [i \in 1..Len(ctx.locked) |-> normalize(ctx.locked[i])]
      currentNames == normNames(ctx.current)
  IN -12 * 100 * The({Count(lockedNames \o currentNames, anti) :
                        anti \in {{normalize(p.anti_synergy[i]) : i \in 1..Len(p.anti_synergy)}}})

antiScore(p, ctx) ==
  -12 * 100 * The({Count(normNames(ctx.current), anti) :
                     anti \in {{normalize(p.anti_synergy[i]) : i \in 1..Len(p.anti_synergy)}}})

mutexScore(p, ctx) ==
  IF \E mutex \in {mutexSet(p.role)}, pTags \in {Range(normTags(p))} :
        LET hasMutexTag == \E t \in pTags : t \in mutex
            currentHasSameMutex == sharesMutexTag(pTags, mutex, ctx.current)
        IN hasMutexTag /\ currentHasSameMutex
  THEN -100 * 100 ELSE 0

tieBreak(p) == 100 - Min2(100, Len(p.name))

\* mutant: the ban test is missing, only the role is tested
scorePerk_NoBanTest(p, ctx) ==
  IF p.role # ctx.role THEN SENTINEL
  ELSE tagScore(p, ctx) + synergyScore(p, ctx) + antiScore(p, ctx)
       + mutexScore(p, ctx) + tierBonus(p) + rateBonus(p)
       + killerFocusBonus(p, ctx.killerFocus) + tieBreak(p)

scorePerk(p, ctx) ==
  IF p.role # ctx.role THEN SENTINEL
  ELSE IF isBanned(ctx.banned, p) THEN SENTINEL
  ELSE tagScore(p, ctx) + synergyScore(p, ctx) + antiScore(p, ctx)
       + mutexScore(p, ctx) + tierBonus(p) + rateBonus(p)
       + killerFocusBonus(p, ctx.killerFocus) + tieBreak(p)

(***************************************************************************)
(* The context runOptimize passes to scorePerk at every comparison         *)
(***************************************************************************)
Ctx(settings, chosen) ==
  [role |-> settings.role, tags |-> settings.selectedTags,
   locked |-> settings.locked, banned |-> settings.banned,
   current |-> chosen, killerFocus |-> settings.killerFocus]

(***************************************************************************)
(* pool.sort((a, b) => scorePerk(b, ctx) - scorePerk(a, ctx)): a stable    *)
(* sort by descending score (Array.prototype.sort is stable, ES2019).      *)
(***************************************************************************)
sortByScores(pool, sc) ==
  LET n == Len(pool)
      pos(i) == 1 + Cardinality({j \in 1..n : sc[j] > sc[i]})
                  + Cardinality({j \in 1..n : j < i /\ sc[j] = sc[i]})
  IN [k \in 1..n |-> pool[CHOOSE i \in 1..n : pos(i) = k]]

\* mutant: the pool is ordered by the scores against the empty build, as in
\* a first iteration without locked perks
sortPool_NoRescore(pool, ctx) ==
  The({sortByScores(pool, sc) :
         sc \in {[i \in 1..Len(pool) |-> scorePerk(pool[i], [ctx EXCEPT !.current = <<>>])]}})

sortPool(pool, ctx) ==
  The({sortByScores(pool, sc) :
         sc \in {[i \in 1..Len(pool) |-> scorePerk(pool[i], ctx)]}})

(***************************************************************************)
(* runOptimize                                                             *)
(***************************************************************************)
\* mutant: the locked perks are not checked against the ban list
lockedPerksOf_NoBanCheck(perks, settings) ==
  SelectSeq(perks, LAMBDA p : isLocked(settings.locked, p))

lockedPerksOf(perks, settings) ==
  SelectSeq(perks, LAMBDA p : isLocked(settings.locked, p) /\ ~isBanned(settings.banned, p))

\* mutant: the locked perks are not de-duplicated
seedOf_NoDedupe(perks, settings) == Slice04(lockedPerksOf(perks, settings))

seedOf(perks, settings) == Slice04(dedupeByName(lockedPerksOf(perks, settings)))

poolOf(perks, settings, chosen) ==
  SelectSeq(perks, LAMBDA p :
     /\ p.role = settings.role
     /\ ~\E i \in 1..Len(chosen) : normalize(chosen[i].name) = normalize(p.name)
     /\ ~isBanned(settings.banned, p))

\* one iteration of the while loop, the pool already sorted: shift the pick,
\* push it unless its score is the sentinel
RECURSIVE greedyLoop(_, _, _)

\* mutant: the defensive test keeps only a candidate of positive score
greedyPick_PositiveOnly(settings, chosen, sorted) ==
  IF scorePerk(Head(sorted), Ctx(settings, chosen)) > 0
  THEN greedyLoop(settings, Append(chosen, Head(sorted)), Tail(sorted))
  ELSE greedyLoop(settings, chosen, Tail(sorted))

greedyPick(settings, chosen, sorted) ==
  IF scorePerk(Head(sorted), Ctx(settings, chosen)) > SENTINEL
  THEN greedyLoop(settings, Append(chosen, Head(sorted)), Tail(sorted))
  ELSE greedyLoop(settings, chosen, Tail(sorted))

greedyLoop(settings, chosen, pool) ==
  IF ~(Len(chosen) < BUILD_SIZE /\ Len(pool) > 0) THEN chosen
  ELSE The({greedyPick(settings, chosen, sorted) :
              sorted \in {sortPool(pool, Ctx(settings, chosen))}})

\* mutant: the greedy loop starts from an empty build instead of the seed
optimizeFrom_NoSeed(perks, settings, chosen) ==
  IF Len(chosen) >= BUILD_SIZE THEN Slice04(chosen)
  ELSE Slice04(greedyLoop(settings, <<>>, poolOf(perks, settings, <<>>)))

optimizeFrom(perks, settings, chosen) ==
  IF Len(chosen) >= BUILD_SIZE THEN Slice04(chosen)
  ELSE Slice04(greedyLoop(settings, chosen, poolOf(perks, settings, chosen)))

runOptimize(perks, settings) ==
  The({optimizeFrom(perks, settings, chosen) : chosen \in {seedOf(perks, settings)}})

(***************************************************************************)
(* shuffle (Fisher-Yates): for i = n-1 .. 1 swap a[i] and a[j], j in 0..i. *)
(* js[i] is the j drawn at step i (1-based here: i = n .. 2, j in 1..i).   *)
(***************************************************************************)
Swap(a, i, j) == [a EXCEPT ![i] = a[j], ![j] = a[i]]

RECURSIVE shuffleFrom(_, _, _)
shuffleFrom(a, i, js) ==
  IF i < 2 THEN a ELSE shuffleFrom(Swap(a, i, js[i]), i - 1, js)

shuffle(arr, js) == shuffleFrom(arr, Len(arr), js)

\* every sequence of draws Math.random can produce for an array of n items
RECURSIVE Draws(_)
Draws(n) ==
  IF n = 0 THEN {<<>>}
  ELSE {Append(js, j) : js \in Draws(n - 1), j \in 1..n}

(***************************************************************************)
(* makeRandomBuild                                                         *)
(***************************************************************************)
\* mutant: the random pool is not filtered by role
randomPoolOf_AnyRole(perks, banned, role) ==
  dedupeByName(SelectSeq(perks, LAMBDA p : ~isBanned(banned, p)))

randomPoolOf(perks, banned, role) ==
  dedupeByName(SelectSeq(perks, LAMBDA p : p.role = role /\ ~isBanned(banned, p)))

sameName(chosen, p) ==
  \E i \in 1..Len(chosen) : normalize(chosen[i].name) = normalize(p.name)

\* mutant: the first pass does not test the mutex rule
RECURSIVE firstPass_NoMutex(_, _)
firstPass_NoMutex(rnd, chosen) ==
  IF rnd = <<>> \/ Len(chosen) >= BUILD_SIZE THEN chosen
  ELSE IF sameName(chosen, Head(rnd)) THEN firstPass_NoMutex(Tail(rnd), chosen)
  ELSE firstPass_NoMutex(Tail(rnd), Append(chosen, Head(rnd)))

RECURSIVE firstPass(_, _)
firstPass(rnd, chosen) ==
  IF rnd = <<>> \/ Len(chosen) >= BUILD_SIZE THEN chosen
  ELSE LET p == Head(rnd) IN
       IF hasMutexConflict(p, chosen) THEN firstPass(Tail(rnd), chosen)
       ELSE IF sameName(chosen, p) THEN firstPass(Tail(rnd), chosen)
       ELSE firstPass(Tail(rnd), Append(chosen, p))

RECURSIVE secondPass(_, _)
secondPass(rnd, chosen) ==
  IF rnd = <<>> \/ Len(chosen) >= BUILD_SIZE THEN chosen
  ELSE LET p == Head(rnd) IN
       IF sameName(chosen, p) THEN secondPass(Tail(rnd), chosen)
       ELSE secondPass(Tail(rnd), Append(chosen, p))

\* mutant: the first pass is skipped (the build is the head of the shuffle)
buildFromShuffled_NoFirstPass(rnd) == Slice04(rnd)

\* mutant: no second pass
buildFromShuffled_FirstPassOnly(rnd) == Slice04(firstPass(rnd, <<>>))

buildFromShuffled(rnd) ==
  The({Slice04(IF Len(first) < BUILD_SIZE THEN secondPass(rnd, first) ELSE first) :
         first \in {firstPass(rnd, <<>>)}})

makeRandomBuild(perks, banned, role, js) ==
  buildFromShuffled(shuffle(randomPoolOf(perks, banned, role), js))

(***************************************************************************)
(* Bounds of the model                                                     *)
(***************************************************************************)
MaxCatalog == 6

MaxLocked == 5

MaxBanned == 1

(***************************************************************************)
(* Inputs: catalogs are the sub-lists of Universe of at most MaxCatalog    *)
(* perks (catalog order kept).                                             *)
(***************************************************************************)
SubList(base, I) ==
  LET idx == SelectSeq([i \in 1..Len(base) |-> i], LAMBDA i : i \in I)
  IN [k \in 1..Len(idx) |-> base[idx[k]]]

SubLists(base, max) ==
  {SubList(base, I) : I \in {J \in SUBSET (1..Len(base)) : Cardinality(J) <= max}}

Catalogs == SubLists(Universe, MaxCatalog)

Prefixes(base, max) == {SubSeq(base, 1, n) : n \in 0..Min2(max, Len(base))}

LockedLists == Prefixes(LockTokens, MaxLocked)

BannedLists == SubLists(BanTokens, MaxBanned)

\* Selected tags and killer focus.  The killer-focus select is shown for the
\* killer role only.
Profiles(role) ==
  IF role = "killer"
  THEN {[selectedTags |-> <<>>, killerFocus |-> ""],
        [selectedTags |-> <<S_chase>>, killerFocus |-> "nurse"]}
  ELSE {[selectedTags |-> <<S_chase>>, killerFocus |-> ""]}

MkSettings(role, profile, locked, banned) ==
  [role |-> role, selectedTags |-> profile.selectedTags, locked |-> locked,
   banned |-> banned, killerFocus |-> profile.killerFocus]

\* settings of the optimizer calls
OptimizeSettings ==
  UNION {{MkSettings(r, pr, l, b) : pr \in Profiles(r), l \in LockedLists,
                                    b \in BannedLists} : r \in Roles}

\* settings of the randomiser calls (makeRandomBuild reads settings.banned only)
RandomSettings ==
  {MkSettings("survivor", [selectedTags |-> <<>>, killerFocus |-> ""], <<>>, b) :
     b \in BannedLists}

(***************************************************************************)
(* State.  The engine: the catalog (dataset.perks), the settings the       *)
(* engine reads, the optimizer's result (suggested) and the randomiser's   *)
(* (randRole, randBuild).  The loader: dataset (NoDataset until a source   *)
(* answered), alive (the load effect's flag), cache (the localStorage      *)
(* entry), now (Date.now()), attempts (a record of the run: the sources    *)
(* tried so far, with their outcome).                                      *)
(* The boot overlay: minElapsed (the MIN_BOOT_MS timer has fired) and      *)
(* booting.  The callbacks to come: timers, the settings and catalog each  *)
(* pending setTimeout(runOptimize, 0) closed over, and effectPending, the  *)
(* recompute effect is due.                                                *)
(* input / output hold the argument and the result of a call of a pure     *)
(* function (normalize, scorePerk, rateBonus, killerFocusBonus).  pc is    *)
(* the position of the run: the call to come, then which call has          *)
(* returned.                                                               *)
(***************************************************************************)
VARIABLES perks, settings, suggested, randRole, randBuild, pc,
          dataset, alive, cache, now, attempts, input, output,
          minElapsed, booting, timers, effectPending

engineVars == <<perks, settings, suggested, randRole, randBuild>>

loadVars == <<dataset, alive, cache, now, attempts>>

fnVars == <<input, output>>

bootVars == <<minElapsed, booting>>

uiVars == <<timers, effectPending>>

vars == <<perks, settings, suggested, randRole, randBuild, pc,
          dataset, alive, cache, now, attempts, input, output,
          minElapsed, booting, timers, effectPending>>

\* datasets are told apart by their version field; NoDataset is null
NoDataset == [version |-> "null"]

\* the dataset of an earlier API fetch, kept in the cache
CachedDataset == [version |-> "dennisreep:earlier"]

\* the dataset fetchDatasetFromAPI builds
ApiDataset == [version |-> "dennisreep:today"]

PerksJsonDataset == [version |-> "perks.json"]

FALLBACK == [version |-> "fallback"]

NoCache == [kind |-> "absent"]

\* the engine at rest: nothing optimized or randomised yet
EngineIdle ==
  /\ perks = <<>>
  /\ settings = MkSettings("survivor", [selectedTags |-> <<>>, killerFocus |-> ""],
                           <<>>, <<>>)
  /\ suggested = <<>>
  /\ randRole = "survivor"
  /\ randBuild = <<>>

\* the loader after a load from /perks.json (the source whose perks carry
\* tags, synergy and anti_synergy lists)
LoaderDone ==
  /\ dataset = PerksJsonDataset
  /\ alive = TRUE
  /\ cache = NoCache
  /\ now = 0
  /\ attempts = <<>>

FnIdle == input = <<>> /\ output = <<>>

\* the overlay after boot: the timer has fired and the overlay is gone
BootDone == minElapsed = TRUE /\ booting = FALSE

\* no callback to come
UiIdle == timers = {} /\ effectPending = FALSE

Init ==
  /\ perks \in Catalogs
  /\ \/ pc = "call_runOptimize" /\ settings \in OptimizeSettings
     \/ pc = "call_pickRandomFor" /\ settings \in RandomSettings
  /\ suggested = <<>>
  /\ randRole = "survivor"
  /\ randBuild = <<>>
  /\ LoaderDone
  /\ BootDone
  /\ UiIdle
  /\ FnIdle

\* mutant: the pool is the catalog itself, not a copy: the picks are shifted
\* out of the catalog
RunOptimize_ShiftsCatalog ==
  /\ pc = "call_runOptimize"
  /\ suggested' = runOptimize(perks, settings)
  /\ perks' = SelectSeq(perks, LAMBDA p : ~Includes(runOptimize(perks, settings), p))
  /\ pc' = "optimized"
  /\ UNCHANGED <<settings, randRole, randBuild, loadVars, fnVars, bootVars, uiVars>>

\* the recompute effect: setSuggested(...)
RunOptimize ==
  /\ pc = "call_runOptimize"
  /\ suggested' = runOptimize(perks, settings)
  /\ pc' = "optimized"
  /\ UNCHANGED <<perks, settings, randRole, randBuild, loadVars, fnVars, bootVars, uiVars>>

\* mutant: the pool outlives the run that drained it (pool.shift()), so the
\* second run finds it empty
Recompute_DrainedPool ==
  /\ pc = "optimized"
  /\ suggested' = Slice04(greedyLoop(settings, seedOf(perks, settings), <<>>))
  /\ pc' = "recomputed"
  /\ UNCHANGED <<perks, settings, randRole, randBuild, loadVars, fnVars, bootVars, uiVars>>

\* the "Generate build" button: setTimeout(runOptimize, 0), a second run on
\* the same catalog and settings
Recompute ==
  /\ pc = "optimized"
  /\ suggested' = runOptimize(perks, settings)
  /\ pc' = "recomputed"
  /\ UNCHANGED <<perks, settings, randRole, randBuild, loadVars, fnVars, bootVars, uiVars>>

\* pickRandomFor(role) / openRandomiser: setRandRole, setRandBuild
PickRandomFor ==
  /\ pc = "call_pickRandomFor"
  /\ \E role \in Roles :
       \E js \in Draws(Len(randomPoolOf(perks, settings.banned, role))) :
         /\ randRole' = role
         /\ randBuild' = makeRandomBuild(perks, settings.banned, role, js)
  /\ pc' = "randomised"
  /\ UNCHANGED <<perks, settings, suggested, loadVars, fnVars, bootVars, uiVars>>

Next == RunOptimize \/ Recompute \/ PickRandomFor

Spec == Init /\ [][Next]_vars

(***************************************************************************)
(* The engine on a catalog whose perks sit at the ends of the scoring      *)
(* scale: Ank and Bod match every selected tag and have the best tier and  *)
(* rate; Top matches every selected tag, has the best tier and rate, is    *)
(* in synergy with Ank and Bod, and shares the mutex tag of Ank; Low has   *)
(* the worst tier and rate and is in anti-synergy with Ank and Bod.        *)
(***************************************************************************)
wAnk == MkPerk(<<"a", "n", "k">>, <<"A", "n", "k">>, "survivor",
               <<S_exhaustion, S_chase, S_heal>>, <<>>, <<>>, "S", Rate(500), <<>>)

wBod == MkPerk(<<"b", "o", "d">>, <<"B", "o", "d">>, "survivor",
               <<S_chase, S_heal>>, <<>>, <<>>, "S", Rate(500), <<>>)

wTop == MkPerk(<<"t", "o", "p">>, <<"T", "o", "p">>, "survivor",
               <<S_exhaustion, S_chase, S_heal>>,
               <<<<"A", "n", "k">>, <<"B", "o", "d">>>>, <<>>, "S", Rate(500), <<>>)

wLow == MkPerk(<<"l", "o", "w">>, <<"L", "o", "w">>, "survivor",
               <<>>, <<>>, <<<<"A", "n", "k">>, <<"B", "o", "d">>>>, "F", Rate(0), <<>>)

ExtremeUniverse == <<wAnk, wBod, wTop, wLow>>

ExtremeCatalogs == SubLists(ExtremeUniverse, Len(ExtremeUniverse))

ExtremeProfiles ==
  {[selectedTags |-> tags, killerFocus |-> ""] :
     tags \in Prefixes(<<S_exhaustion, S_chase, S_heal>>, 3)}

ExtremeLockedLists == Prefixes(<<<<"A", "n", "k">>, <<"B", "o", "d">>>>, 2)

InitExtremes ==
  /\ perks \in ExtremeCatalogs
  /\ \/ /\ pc = "call_runOptimize"
        /\ settings \in {MkSettings(r, pr, l, <<>>) :
                           r \in Roles, pr \in ExtremeProfiles, l \in ExtremeLockedLists}
     \/ /\ pc = "call_pickRandomFor"
        /\ settings = MkSettings("survivor", [selectedTags |-> <<>>, killerFocus |-> ""],
                                 <<>>, <<>>)
  /\ suggested = <<>>
  /\ randRole = "survivor"
  /\ randBuild = <<>>
  /\ LoaderDone
  /\ BootDone
  /\ UiIdle
  /\ FnIdle

SpecExtremes == InitExtremes /\ [][Next]_vars

(***************************************************************************)
(* The dataset load effect: readCache, fetchDatasetFromAPI, /perks.json,   *)
(* FALLBACK.  Times are in milliseconds.                                   *)
(***************************************************************************)
API_TTL_MS == 86400000

\* a cache entry {savedAt, dataset}; savedAtIsNumber is FALSE when
\* Number(savedAt) is NaN; ds is NoDataset when the entry has no dataset
CacheEntry(isNumber, savedAt, ds) ==
  [kind |-> "entry", savedAtIsNumber |-> isNumber, savedAt |-> savedAt, dataset |-> ds]

CorruptCache == [kind |-> "corrupt"]

\* the localStorage contents a load can find: nothing, text that is no JSON,
\* or an entry saved at time 0
InitialCaches ==
  {NoCache, CorruptCache}
  \cup {CacheEntry(isNumber, 0, ds) : isNumber \in BOOLEAN, ds \in {CachedDataset, NoDataset}}

\* when the load runs: the entry is 1 ms old, exactly the TTL old, or older
LoadTimes == {1, API_TTL_MS, API_TTL_MS + 1}

readCache(c, t) ==
  IF c.kind = "absent" THEN NoDataset
  ELSE IF c.kind = "corrupt" THEN NoDataset
  ELSE IF c.savedAtIsNumber /\ t - c.savedAt > API_TTL_MS THEN NoDataset
  ELSE c.dataset

\* writeCache: the entry is stored unless localStorage.setItem throws
writeCache(c, t, ds, stored) == IF stored THEN CacheEntry(TRUE, t, ds) ELSE c

FetchOutcomes == {"ok", "not_ok", "rejected"}

Attempt(src, ok) == [src |-> src, ok |-> ok]

InitLoad ==
  /\ dataset = NoDataset
  /\ alive = TRUE
  /\ cache \in InitialCaches
  /\ now \in LoadTimes
  /\ attempts = <<>>
  /\ pc = "load_start"
  /\ EngineIdle
  /\ FnIdle
  /\ minElapsed = FALSE
  /\ booting = TRUE
  /\ UiIdle

\* the effect up to its first await: readCache, then setDataset(cached) or
\* the two fetches of fetchDatasetFromAPI
LoadStart ==
  /\ pc = "load_start"
  /\ \E cached \in {readCache(cache, now)} :
       IF cached # NoDataset
       THEN /\ dataset' = IF alive THEN cached ELSE dataset
            /\ attempts' = Append(attempts, Attempt("cache", TRUE))
            /\ pc' = "load_done"
       ELSE /\ attempts' = Append(attempts, Attempt("cache", FALSE))
            /\ pc' = "await_api"
            /\ UNCHANGED dataset
  /\ UNCHANGED <<alive, cache, now, engineVars, fnVars, bootVars, uiVars>>

\* mutant: a failed API fetch goes straight to the embedded dataset
ApiResponds_SkipsPerksJson ==
  /\ pc = "await_api"
  /\ \E s \in FetchOutcomes, k \in FetchOutcomes, parsed \in BOOLEAN :
       IF s = "ok" /\ k = "ok" /\ parsed
       THEN /\ pc' = "await_killer_data"
            /\ UNCHANGED <<attempts, dataset>>
       ELSE /\ attempts' = attempts \o <<Attempt("api", FALSE), Attempt("FALLBACK", TRUE)>>
            /\ dataset' = IF alive THEN FALLBACK ELSE dataset
            /\ pc' = "load_done"
  /\ UNCHANGED <<alive, cache, now, engineVars, fnVars, bootVars, uiVars>>

\* Promise.all of the survivor and killer perk fetches settles: both ok and
\* parsed, or the function throws and the catch block requests /perks.json
ApiResponds ==
  /\ pc = "await_api"
  /\ \E s \in FetchOutcomes, k \in FetchOutcomes, parsed \in BOOLEAN :
       IF s = "ok" /\ k = "ok" /\ parsed
       THEN /\ pc' = "await_killer_data"
            /\ UNCHANGED attempts
       ELSE /\ attempts' = Append(attempts, Attempt("api", FALSE))
            /\ pc' = "await_perks_json"
  /\ UNCHANGED <<dataset, alive, cache, now, engineVars, fnVars, bootVars, uiVars>>

\* fetchKillerDataForSlugs settles (a failed killer fetch is ignored):
\* fetchDatasetFromAPI returns, then setDataset(ds) and writeCache(ds)
KillerDataResponds ==
  /\ pc = "await_killer_data"
  /\ attempts' = Append(attempts, Attempt("api", TRUE))
  /\ IF alive
     THEN /\ dataset' = ApiDataset
          /\ \E stored \in BOOLEAN : cache' = writeCache(cache, now, ApiDataset, stored)
     ELSE UNCHANGED <<dataset, cache>>
  /\ pc' = "load_done"
  /\ UNCHANGED <<alive, now, engineVars, fnVars, bootVars, uiVars>>

\* mutant: the dataset of /perks.json or the embedded one is cached too
PerksJsonResponds_WritesCache ==
  /\ pc = "await_perks_json"
  /\ \E o \in FetchOutcomes \cup {"bad_json"} :
       IF o = "ok"
       THEN /\ attempts' = Append(attempts, Attempt("perks.json", TRUE))
            /\ dataset' = IF alive THEN PerksJsonDataset ELSE dataset
            /\ cache' = IF alive THEN writeCache(cache, now, PerksJsonDataset, TRUE)
                                 ELSE cache
       ELSE /\ attempts' = attempts \o <<Attempt("perks.json", FALSE),
                                         Attempt("FALLBACK", TRUE)>>
            /\ dataset' = IF alive THEN FALLBACK ELSE dataset
            /\ cache' = IF alive THEN writeCache(cache, now, FALLBACK, TRUE) ELSE cache
  /\ pc' = "load_done"
  /\ UNCHANGED <<alive, now, engineVars, fnVars, bootVars, uiVars>>

\* the fetch of /perks.json settles: setDataset(json), or setDataset(FALLBACK)
\* when it is rejected, not ok, or no JSON
PerksJsonResponds ==
  /\ pc = "await_perks_json"
  /\ \E o \in FetchOutcomes \cup {"bad_json"} :
       IF o = "ok"
       THEN /\ attempts' = Append(attempts, Attempt("perks.json", TRUE))
            /\ dataset' = IF alive THEN PerksJsonDataset ELSE dataset
       ELSE /\ attempts' = attempts \o <<Attempt("perks.json", FALSE),
                                         Attempt("FALLBACK", TRUE)>>
            /\ dataset' = IF alive THEN FALLBACK ELSE dataset
  /\ pc' = "load_done"
  /\ UNCHANGED <<alive, cache, now, engineVars, fnVars, bootVars, uiVars>>

\* the effect's cleanup: alive = false
Unmount ==
  /\ pc # "load_start"
  /\ alive
  /\ alive' = FALSE
  /\ UNCHANGED <<pc, dataset, cache, now, attempts, engineVars, fnVars, bootVars, uiVars>>

NextLoad ==
  LoadStart \/ ApiResponds \/ KillerDataResponds \/ PerksJsonResponds \/ Unmount

\* every request settles
SpecLoad ==
  /\ InitLoad
  /\ [][NextLoad]_vars
  /\ WF_vars(LoadStart)
  /\ WF_vars(ApiResponds)
  /\ WF_vars(KillerDataResponds)
  /\ WF_vars(PerksJsonResponds)

(***************************************************************************)
(* The boot overlay, beside the load effect: a timer of MIN_BOOT_MS sets   *)
(* minElapsed, and an effect on [dataset, minElapsed] clears booting.  The *)
(* cleanup of the timer effect (clearTimeout) runs with the cleanup of the *)
(* load effect, at unmount.                                                *)
(***************************************************************************)
\* setTimeout(() => setMinElapsed(true), MIN_BOOT_MS) fires
MinBootElapsed ==
  /\ alive
  /\ ~minElapsed
  /\ minElapsed' = TRUE
  /\ UNCHANGED <<pc, booting, engineVars, loadVars, fnVars, uiVars>>

\* mutant: the overlay goes as soon as the dataset is there
BootEffect_IgnoresTimer ==
  /\ alive
  /\ booting
  /\ dataset # NoDataset
  /\ booting' = FALSE
  /\ UNCHANGED <<pc, minElapsed, engineVars, loadVars, fnVars, uiVars>>

\* if (dataset !== null && minElapsed) setBooting(false)
BootEffect ==
  /\ alive
  /\ booting
  /\ dataset # NoDataset /\ minElapsed
  /\ booting' = FALSE
  /\ UNCHANGED <<pc, minElapsed, engineVars, loadVars, fnVars, uiVars>>

NextBoot == NextLoad \/ MinBootElapsed \/ BootEffect

\* every request settles, the timer fires and a due effect runs
SpecBoot ==
  /\ InitLoad
  /\ [][NextBoot]_vars
  /\ WF_vars(LoadStart)
  /\ WF_vars(ApiResponds)
  /\ WF_vars(KillerDataResponds)
  /\ WF_vars(PerksJsonResponds)
  /\ WF_vars(MinBootElapsed)
  /\ WF_vars(BootEffect)

(***************************************************************************)
(* normalize called on a string, then on its own result.  The strings are  *)
(* all those of at most MaxStrLen characters over Chars.                   *)
(***************************************************************************)
MaxStrLen == 3

Chars == {"A", "a", "t", "A_ACUTE", "a_acute", "COMB_ACUTE", "TM_SIGN"}

RECURSIVE StringsOfLen(_)
StringsOfLen(n) ==
  IF n = 0 THEN {<<>>}
  ELSE {Append(str, c) : str \in StringsOfLen(n - 1), c \in Chars}

Strings == UNION {StringsOfLen(n) : n \in 0..MaxStrLen}

InitNormalize ==
  /\ input \in Strings
  /\ output = <<>>
  /\ pc = "call_normalize"
  /\ EngineIdle
  /\ LoaderDone
  /\ BootDone
  /\ UiIdle

Normalize ==
  /\ pc = "call_normalize"
  /\ output' = normalize(input)
  /\ pc' = "normalized"
  /\ UNCHANGED <<input, engineVars, loadVars, bootVars, uiVars>>

NormalizeAgain ==
  /\ pc = "normalized"
  /\ input' = output
  /\ output' = normalize(output)
  /\ pc' = "normalized_twice"
  /\ UNCHANGED <<engineVars, loadVars, bootVars, uiVars>>

NextNormalize == Normalize \/ NormalizeAgain

SpecNormalize == InitNormalize /\ [][NextNormalize]_vars

(***************************************************************************)
(* The scoring functions called on their own: scorePerk(p, ctx),           *)
(* rateBonus(p) and killerFocusBonus(p, ctx.killerFocus).  input is the    *)
(* pair [p, ctx], output the number returned (hundredths of a point).      *)
(* The candidates are the perks of Universe, a perk under every rate of    *)
(* the grid (absent, below 0, above 5) and a perk under every focus list   *)
(* (no entry, an entry without rank, ranks from 0 up, an entry for another *)
(* killer first).                                                          *)
(***************************************************************************)
MaxRateStep == 12

MaxRank == 9

RateValues == {50 * i : i \in -2..MaxRateStep}

Rates == {NoRate} \cup {Rate(v) : v \in RateValues}

RankValues == 0..MaxRank

FocusLists ==
  {<<>>, <<[slug |-> "nurse"]>>, <<[slug |-> "blight", rank |-> 1]>>}
    \cup {<<[slug |-> "nurse", rank |-> r]>> : r \in RankValues}
    \cup {<<[slug |-> "blight", rank |-> 1], [slug |-> "nurse", rank |-> r]>> :
             r \in RankValues}

FocusKeys == {"", "nurse", "hag"}

ScoreCandidates ==
  Range(Universe)
    \cup {[pEps EXCEPT !.rate = r] : r \in Rates}
    \cup {[pKob EXCEPT !.topForKillers = t] : t \in FocusLists}

ScoreBuilds == {<<>>, <<pAlpha>>, <<pAlpha, pAlphaDup>>, <<pEps>>, <<pKap>>}

ScoreContexts ==
  [role : Roles, tags : {<<>>, <<S_chase>>}, locked : {<<>>, <<N_Alpha>>},
   banned : {<<>>, <<BanTokens[1]>>, <<BanTokens[2]>>},
   current : ScoreBuilds, killerFocus : FocusKeys]

InitScore ==
  /\ pc = "call_score"
  /\ input \in [p : ScoreCandidates, ctx : ScoreContexts]
  /\ output = <<>>
  /\ EngineIdle
  /\ LoaderDone
  /\ BootDone
  /\ UiIdle

ScorePerk ==
  /\ pc = "call_score"
  /\ output' = scorePerk(input.p, input.ctx)
  /\ pc' = "scored"
  /\ UNCHANGED <<input, engineVars, loadVars, bootVars, uiVars>>

RateBonus ==
  /\ pc = "call_score"
  /\ output' = rateBonus(input.p)
  /\ pc' = "rated"
  /\ UNCHANGED <<input, engineVars, loadVars, bootVars, uiVars>>

KillerFocusBonus ==
  /\ pc = "call_score"
  /\ output' = killerFocusBonus(input.p, input.ctx.killerFocus)
  /\ pc' = "focused"
  /\ UNCHANGED <<input, engineVars, loadVars, bootVars, uiVars>>

NextScore == ScorePerk \/ RateBonus \/ KillerFocusBonus

SpecScore == InitScore /\ [][NextScore]_vars

(***************************************************************************)
(* The settings panel and the callbacks that recompute the suggestion.     *)
(* Lock / Ban (PerkCard and the buttons of the suggested list), the token  *)
(* lists' remove, the recompute effect that React runs after a render in   *)
(* which one of its dependencies changed, and the "Generate build" button, *)
(* whose setTimeout(runOptimize, 0) runs the runOptimize of the render in  *)
(* which the button was clicked.  At most MaxTimers timers are pending.    *)
(***************************************************************************)
MaxTimers == 1

\* catalog perks whose normalised names and ids are pairwise distinct
UiCatalog == <<pAlpha, pBeta>>

\* Array.from(new Set(arr)): the first occurrence of every element
RECURSIVE arrayFromSetFrom(_, _)
arrayFromSetFrom(arr, acc) ==
  IF arr = <<>> THEN acc
  ELSE arrayFromSetFrom(Tail(arr), IF Includes(acc, Head(arr)) THEN acc
                                   ELSE Append(acc, Head(arr)))

arrayFromSet(arr) == arrayFromSetFrom(arr, <<>>)

\* arr.filter((i) => normalize(i) !== normalize(p.name) && normalize(i) !== normalize(p.id))
withoutPerk(arr, p) ==
  SelectSeq(arr, LAMBDA i : normalize(i) # normalize(p.name)
                            /\ normalize(i) # normalize(p.id))

\* arr.filter((i) => i !== x)
withoutToken(arr, x) == SelectSeq(arr, LAMBDA i : i # x)

InitUi ==
  /\ perks = UiCatalog
  /\ settings = MkSettings("survivor", [selectedTags |-> <<S_chase>>, killerFocus |-> ""],
                           <<>>, <<>>)
  /\ suggested = <<>>
  /\ randRole = "survivor"
  /\ randBuild = <<>>
  /\ pc = "mounted"
  /\ timers = {}
  /\ effectPending = TRUE
  /\ LoaderDone
  /\ BootDone
  /\ FnIdle

\* a click handler calling setSettings(next): React has run the effects of
\* the last render before it handles the event; a render follows, and the
\* recompute effect is due when one of its dependencies changed
SetSettings(next) ==
  /\ ~effectPending
  /\ settings' = next
  /\ effectPending' = (next # settings)
  /\ UNCHANGED <<perks, suggested, randRole, randBuild, pc, timers,
                 loadVars, fnVars, bootVars>>

\* mutant: Lock leaves the banned list alone
Lock_KeepsBans ==
  \E i \in 1..Len(perks) :
     SetSettings([settings EXCEPT
                    !.locked = arrayFromSet(Append(settings.locked, perks[i].name))])

Lock ==
  \E i \in 1..Len(perks) :
     SetSettings([settings EXCEPT
                    !.locked = arrayFromSet(Append(settings.locked, perks[i].name)),
                    !.banned = withoutPerk(settings.banned, perks[i])])

Ban ==
  \E i \in 1..Len(perks) :
     SetSettings([settings EXCEPT
                    !.banned = arrayFromSet(Append(settings.banned, perks[i].name)),
                    !.locked = withoutPerk(settings.locked, perks[i])])

RemoveLocked ==
  \E k \in 1..Len(settings.locked) :
     SetSettings([settings EXCEPT
                    !.locked = withoutToken(settings.locked, settings.locked[k])])

RemoveBanned ==
  \E k \in 1..Len(settings.banned) :
     SetSettings([settings EXCEPT
                    !.banned = withoutToken(settings.banned, settings.banned[k])])

\* the recompute effect: runOptimize() of the current render
RunEffect ==
  /\ effectPending
  /\ suggested' = runOptimize(perks, settings)
  /\ effectPending' = FALSE
  /\ UNCHANGED <<perks, settings, randRole, randBuild, pc, timers,
                 loadVars, fnVars, bootVars>>

\* "Generate build": setTimeout(runOptimize, 0)
ClickGenerate ==
  /\ ~effectPending
  /\ Cardinality(timers) < MaxTimers
  /\ timers' = timers \cup {[perks |-> perks, settings |-> settings]}
  /\ UNCHANGED <<engineVars, pc, effectPending, loadVars, fnVars, bootVars>>

\* the timer fires: the runOptimize it holds reads the perks and settings of
\* its render, then setSuggested
TimerFires ==
  \E t \in timers :
     /\ suggested' = runOptimize(t.perks, t.settings)
     /\ timers' = timers \ {t}
     /\ UNCHANGED <<perks, settings, randRole, randBuild, pc, effectPending,
                    loadVars, fnVars, bootVars>>

NextUi ==
  \/ Lock \/ Ban \/ RemoveLocked \/ RemoveBanned
  \/ RunEffect \/ ClickGenerate \/ TimerFires

SpecUi == InitUi /\ [][NextUi]_vars

(***************************************************************************)
(* Vocabulary of the properties                                            *)
(***************************************************************************)
\* p's normalised name or normalised id equals the normalisation of an entry
Matches(entries, p) ==
  \E i \in 1..Len(entries) :
     normalize(entries[i]) \in {normalize(p.name), normalize(p.id)}

SameNormName(p, q) == normalize(p.name) = normalize(q.name)

\* two perks hold a common tag that is a mutex tag of the role
SharesMutexTagOf(role, p, q) ==
  \E i \in 1..Len(p.tags), j \in 1..Len(q.tags), k \in 1..Len(MUTEX_TAGS[role]) :
     /\ normalize(p.tags[i]) = normalize(q.tags[j])
     /\ normalize(p.tags[i]) = normalize(MUTEX_TAGS[role][k])

CarriesMutexTagOf(role, p) == SharesMutexTagOf(role, p, p)

MutexFree(role, build) ==
  \A i, j \in 1..Len(build) : i # j => ~SharesMutexTagOf(role, build[i], build[j])

\* indices of the catalog items that are locked and not banned
ValidLocked == {i \in 1..Len(perks) : Matches(settings.locked, perks[i])
                                      /\ ~Matches(settings.banned, perks[i])}

ValidLockedNames == {normalize(perks[i].name) : i \in ValidLocked}

FirstOfItsName(I, i) == \A j \in I : SameNormName(perks[i], perks[j]) => i <= j

\* indices of the non-banned catalog items of a role
RolePool(role) == {i \in 1..Len(perks) : perks[i].role = role
                                          /\ ~Matches(settings.banned, perks[i])}

RolePoolNames(role) == {normalize(perks[i].name) : i \in RolePool(role)}

\* the pool after de-duplication: the first item of every name
DedupedPool(role) == {i \in RolePool(role) : FirstOfItsName(RolePool(role), i)}

(***************************************************************************)
(* C1: no member of a build returned by runOptimize or makeRandomBuild has *)
(* a normalised name or id equal to the normalisation of a banned entry,   *)
(* whatever the case or accents of the entry, also for locked items.       *)
(***************************************************************************)
C1_BanExclusion ==
  /\ \A i \in 1..Len(suggested) : ~Matches(settings.banned, suggested[i])
  /\ \A i \in 1..Len(randBuild) : ~Matches(settings.banned, randBuild[i])

\* the optimizer has returned a non-empty build although a catalog item of
\* the role is both locked and banned, by an entry that differs from its name
C1_Witness ==
  /\ pc = "optimized"
  /\ Len(suggested) > 0
  /\ \E i \in 1..Len(perks) :
        /\ perks[i].role = settings.role
        /\ Matches(settings.locked, perks[i])
        /\ Matches(settings.banned, perks[i])
        /\ ~Includes(settings.banned, perks[i].name)

(***************************************************************************)
(* C2: every returned build has between 0 and 4 members, also when more    *)
(* than 4 valid locked items exist.                                        *)
(***************************************************************************)
C2_SizeBound ==
  /\ Len(suggested) \in 0..4
  /\ Len(randBuild) \in 0..4

C2_Witness ==
  /\ pc = "optimized"
  /\ Cardinality(ValidLockedNames) > 4
  /\ Len(suggested) = 4

(***************************************************************************)
(* C3: no returned build holds two members with the same normalised name,  *)
(* also when the catalog holds several items of one normalised name.       *)
(***************************************************************************)
C3_NoDuplicates ==
  /\ \A i, j \in 1..Len(suggested) : i # j => ~SameNormName(suggested[i], suggested[j])
  /\ \A i, j \in 1..Len(randBuild) : i # j => ~SameNormName(randBuild[i], randBuild[j])

(***************************************************************************)
(* C4: every member of a returned build has the requested role, also the   *)
(* members that entered the build as locked seed items.                    *)
(***************************************************************************)
C4_RolePurity ==
  /\ \A i \in 1..Len(suggested) : suggested[i].role = settings.role
  /\ \A i \in 1..Len(randBuild) : randBuild[i].role = randRole

(***************************************************************************)
(* C5: when the locked, non-banned catalog items have at most 4 distinct   *)
(* normalised names, runOptimize returns a build that holds every such     *)
(* name, and holds the first catalog item of each name itself.             *)
(***************************************************************************)
C5_LockInclusion ==
  (pc = "optimized" /\ Cardinality(ValidLockedNames) <= 4) =>
     \A i \in ValidLocked :
        /\ \E k \in 1..Len(suggested) : SameNormName(suggested[k], perks[i])
        /\ FirstOfItsName(ValidLocked, i) => Includes(suggested, perks[i])

\* two to four locked items, one of which the scores alone would not pick:
\* the pool holds at least four other items
C5_Witness ==
  /\ pc = "optimized"
  /\ Cardinality(ValidLockedNames) \in 2..4
  /\ Cardinality(RolePoolNames(settings.role) \ ValidLockedNames) >= 2
  /\ \E i \in ValidLocked : perks[i].role # settings.role
  /\ \A i \in ValidLocked : Includes(suggested, perks[i])

(***************************************************************************)
(* C6: when 4 or more distinct non-banned catalog items are locked,        *)
(* runOptimize returns exactly the first 4 of them in catalog order and    *)
(* nothing else.                                                           *)
(***************************************************************************)
FirstValidLocked ==
  SelectSeq([i \in 1..Len(perks) |-> i],
            LAMBDA i : i \in ValidLocked /\ FirstOfItsName(ValidLocked, i))

C6_LockOverflow ==
  (pc = "optimized" /\ Cardinality(ValidLockedNames) >= 4) =>
     suggested = [k \in 1..4 |-> perks[FirstValidLocked[k]]]

\* five locked items: the fifth is dropped
C6_Witness ==
  /\ pc = "optimized"
  /\ Cardinality(ValidLockedNames) = 5
  /\ Len(suggested) = 4
  /\ ~Includes(suggested, perks[FirstValidLocked[5]])

(***************************************************************************)
(* C7: the build returned by runOptimize never holds two perks that share  *)
(* a mutex tag of the role.                                                *)
(***************************************************************************)
C7_OptimizerMutex == MutexFree(settings.role, suggested)

(***************************************************************************)
(* C8: every build of makeRandomBuild holds at most one perk per mutex tag *)
(* of the role, for every catalog and ban list.                            *)
(***************************************************************************)
C8_RandomiserMutex == MutexFree(randRole, randBuild)

(***************************************************************************)
(* C9: if the role's non-banned pool holds at least 4 items (distinct by   *)
(* normalised name) that carry no mutex tag, then for every shuffle the    *)
(* random build has no two members in mutex conflict (and is full: the     *)
(* first pass alone filled it).                                            *)
(***************************************************************************)
MutexFreeInPool(role) ==
  {i \in DedupedPool(role) : ~CarriesMutexTagOf(role, perks[i])}

C9_RandomHardMutex ==
  (pc = "randomised" /\ Cardinality(MutexFreeInPool(randRole)) >= 4) =>
     /\ MutexFree(randRole, randBuild)
     /\ Len(randBuild) = 4

\* four mutex-free items and two items sharing a mutex tag in the pool; the
\* build took one of the two
C9_Witness ==
  /\ pc = "randomised"
  /\ Cardinality(MutexFreeInPool(randRole)) >= 4
  /\ Cardinality(DedupedPool(randRole) \ MutexFreeInPool(randRole)) >= 2
  /\ \E k \in 1..Len(randBuild) : CarriesMutexTagOf(randRole, randBuild[k])

(***************************************************************************)
(* C10: makeRandomBuild returns exactly min(4, n) members, n the number of *)
(* distinct normalised names among the non-banned catalog items of the     *)
(* role, for every shuffle.                                                *)
(***************************************************************************)
C10_RandomSize ==
  pc = "randomised" =>
     Len(randBuild) = Min2(4, Cardinality(RolePoolNames(randRole)))

\* a pool the mutex rule alone cannot fill: the second pass completed it
C10_Witness ==
  /\ pc = "randomised"
  /\ Cardinality(RolePoolNames(randRole)) >= 4
  /\ Cardinality(MutexFreeInPool(randRole)) <= 2
  /\ Len(randBuild) = 4
  /\ ~MutexFree(randRole, randBuild)

(***************************************************************************)
(* C11: when the role's non-banned pool holds at least 4 items (distinct   *)
(* by normalised name) of which f < 4 carry no mutex tag, then for every   *)
(* shuffle the random build has 4 members, holds all f mutex-free items    *)
(* and exactly 4 - f of its members carry the role's mutex tag.            *)
(***************************************************************************)
MutexCarriersIn(role, build) ==
  {k \in 1..Len(build) : CarriesMutexTagOf(role, build[k])}

C11_RandomFallback ==
  (/\ pc = "randomised"
   /\ Cardinality(DedupedPool(randRole)) >= 4
   /\ Cardinality(MutexFreeInPool(randRole)) < 4) =>
     /\ Len(randBuild) = 4
     /\ \A i \in MutexFreeInPool(randRole) : Includes(randBuild, perks[i])
     /\ Cardinality(MutexCarriersIn(randRole, randBuild))
          = 4 - Cardinality(MutexFreeInPool(randRole))

\* five items in the pool, at most two of them mutex-free: the second pass
\* added the second (and third) carrier of the mutex tag
C11_Witness ==
  /\ pc = "randomised"
  /\ Cardinality(DedupedPool(randRole)) >= 5
  /\ Cardinality(MutexFreeInPool(randRole)) <= 2
  /\ Len(randBuild) = 4
  /\ Cardinality(MutexCarriersIn(randRole, randBuild)) >= 2

(***************************************************************************)
(* C12 (Scenario A): catalog [Alpha, Beta, Gamma, Delta], all survivor,    *)
(* selected tags {chase}, no locks, no bans: runOptimize picks Alpha       *)
(* first and Beta second; with Alpha in the build Beta's score is 8 points *)
(* higher than before and above the scores of Gamma and Delta.  (Delta's   *)
(* tag is written in another case in the catalog; scorePerk normalises     *)
(* it.)                                                                    *)
(***************************************************************************)
ScenarioA ==
  /\ perks = <<pAlpha, pBeta, pGamma, pDelta>>
  /\ settings = MkSettings("survivor", [selectedTags |-> <<S_chase>>, killerFocus |-> ""],
                           <<>>, <<>>)

C12_ScenarioA ==
  (pc = "optimized" /\ ScenarioA) =>
     /\ Len(suggested) >= 2
     /\ suggested[1] = pAlpha
     /\ suggested[2] = pBeta
     /\ scorePerk(pBeta, Ctx(settings, <<pAlpha>>))
          = scorePerk(pBeta, Ctx(settings, <<>>)) + 8 * 100
     /\ scorePerk(pBeta, Ctx(settings, <<pAlpha>>))
          > scorePerk(pGamma, Ctx(settings, <<pAlpha>>))
     /\ scorePerk(pBeta, Ctx(settings, <<pAlpha>>))
          > scorePerk(pDelta, Ctx(settings, <<pAlpha>>))

C12_Witness ==
  /\ pc = "optimized"
  /\ ScenarioA
  /\ Len(suggested) = 4

(***************************************************************************)
(* C13: the mutex test, in hasMutexConflict and in the penalty step of     *)
(* scorePerk, is true of a candidate a and a picked perk b iff a and b     *)
(* have the same role and share a tag that is a mutex tag of that role     *)
(* (so it is false across roles, and symmetric).  Stated for every pair    *)
(* of catalog items.                                                       *)
(***************************************************************************)
Conflicts(a, b) == a.role = b.role /\ SharesMutexTagOf(a.role, a, b)

C13_ConflictPredicate ==
  \A i, j \in 1..Len(perks) :
     /\ hasMutexConflict(perks[i], <<perks[j]>>) <=> Conflicts(perks[i], perks[j])
     /\ (mutexScore(perks[i], Ctx(settings, <<perks[j]>>)) # 0)
          <=> Conflicts(perks[i], perks[j])
     /\ hasMutexConflict(perks[i], <<perks[j]>>) <=> hasMutexConflict(perks[j], <<perks[i]>>)

TiedPick(k) ==
  /\ k > Len(seedOf(perks, settings))
  /\ k < Len(suggested)
  /\ scorePerk(suggested[k], Ctx(settings, SubSeq(suggested, 1, k - 1)))
       = scorePerk(suggested[k + 1], Ctx(settings, SubSeq(suggested, 1, k - 1)))

CatalogIndex(p) == CHOOSE i \in 1..Len(perks) : perks[i] = p

C16_Idempotent == pc = "normalized_twice" => output = input

(***************************************************************************)
(* C17: on load the dataset comes from the first source that succeeds, in  *)
(* the order cache, API, /perks.json, embedded dataset: a source is tried  *)
(* only after the one before it failed, the dataset set is the one of the  *)
(* last source tried, and, every request settling, the dataset is          *)
(* eventually non-null unless the component is unmounted.                  *)
(***************************************************************************)
SourceOrder == <<"cache", "api", "perks.json", "FALLBACK">>

SourceRank(src) == CHOOSE r \in 1..Len(SourceOrder) : SourceOrder[r] = src

DatasetOf(src) ==
  CASE src = "cache" -> CachedDataset
    [] src = "api" -> ApiDataset
    [] src = "perks.json" -> PerksJsonDataset
    [] src = "FALLBACK" -> FALLBACK

LoadInOrder ==
  /\ \A j \in 1..Len(attempts) : SourceRank(attempts[j].src) = j
  /\ \A j \in 2..Len(attempts) : ~attempts[j - 1].ok
  /\ pc \in {"await_api", "await_killer_data"} => attempts = <<Attempt("cache", FALSE)>>
  /\ pc = "await_perks_json" =>
       attempts = <<Attempt("cache", FALSE), Attempt("api", FALSE)>>
  /\ dataset # NoDataset =>
       /\ pc = "load_done"
       /\ attempts[Len(attempts)].ok
       /\ dataset = DatasetOf(attempts[Len(attempts)].src)
  /\ (pc = "load_done" /\ alive) => dataset # NoDataset

C17_LoadOrder ==
  /\ []LoadInOrder
  /\ <>(dataset # NoDataset \/ ~alive)

\* every source before the embedded dataset failed
C17_Witness ==
  /\ alive
  /\ dataset = FALLBACK
  /\ Len(attempts) = 4

(***************************************************************************)
(* The iterations of the greedy loop, read off the result: the build       *)
(* starts as the seed and grows by one pick per iteration, so iteration k  *)
(* (k > SeedLen) scored the pool against the first k - 1 members.          *)
(***************************************************************************)
SeedLen == Len(seedOf(perks, settings))

PartialBuild(k) == SubSeq(suggested, 1, k)

\* the pool before the pick of member k + 1
PoolAt(k) ==
  Range(poolOf(perks, settings, seedOf(perks, settings)))
    \ Range(SubSeq(suggested, SeedLen + 1, k))

(***************************************************************************)
(* C18: the synergy component of the score of a candidate against a        *)
(* partial build is 8 times the number of distinct normalised names, in    *)
(* the union of the locked names and the names of the partial build, that  *)
(* the candidate's synergy list holds: a name both locked and in the build *)
(* counts once.  Stated for every pool candidate and every partial build   *)
(* of the run.                                                             *)
(***************************************************************************)
LockedOrBuilt(k) ==
  {normalize(settings.locked[i]) : i \in 1..Len(settings.locked)}
    \cup {normalize(suggested[i].name) : i \in 1..k}

RelatedNames(p) == {normalize(p.synergy[i]) : i \in 1..Len(p.synergy)}

C18_SynergyUnion ==
  pc = "optimized" =>
    \A k \in SeedLen..Len(suggested) : \A p \in PoolAt(k) :
       synergyScore(p, Ctx(settings, PartialBuild(k)))
         = 8 * 100 * Cardinality(LockedOrBuilt(k) \cap RelatedNames(p))

(***************************************************************************)
(* C19: in runOptimize a pool candidate in mutex conflict with the partial *)
(* build never scores higher than a pool candidate without conflict: the   *)
(* -100 penalty is never offset, so a conflicting perk is picked only      *)
(* when no other candidate remains.  Stated for every partial build of     *)
(* the run and every two perks still in the pool.                          *)
(***************************************************************************)
InConflict(p, build) == \E i \in 1..Len(build) : Conflicts(p, build[i])

C19_PenaltyNeverOffset ==
  pc = "optimized" =>
    \A k \in SeedLen..Len(suggested) : \A c, d \in PoolAt(k) :
       (InConflict(c, PartialBuild(k)) /\ ~InConflict(d, PartialBuild(k))) =>
          scorePerk(c, Ctx(settings, PartialBuild(k)))
            <= scorePerk(d, Ctx(settings, PartialBuild(k)))

(***************************************************************************)
(* C20: at every iteration of the greedy loop the perk appended has a      *)
(* score, against the build as it stands at that iteration, greater than   *)
(* or equal to the score of every other perk still in the pool.            *)
(***************************************************************************)
C20_GreedyMax ==
  pc = "optimized" =>
    \A k \in (SeedLen + 1)..Len(suggested) : \A p \in PoolAt(k - 1) :
       scorePerk(suggested[k], Ctx(settings, PartialBuild(k - 1)))
         >= scorePerk(p, Ctx(settings, PartialBuild(k - 1)))

\* a pick that the scores of the first iteration would not have made: a perk
\* left in the pool scored higher against the seed than the perk picked
C20_Witness ==
  /\ pc = "optimized"
  /\ \E k \in (SeedLen + 2)..Len(suggested) : \E p \in PoolAt(k) :
        scorePerk(p, Ctx(settings, PartialBuild(SeedLen)))
          > scorePerk(suggested[k], Ctx(settings, PartialBuild(SeedLen)))

(***************************************************************************)
(* C21: in the greedy loop of runOptimize every item shifted from the pool *)
(* is appended: the defensive test next.score > -9999 never drops one,     *)
(* because the score of a pool item against any partial build of the run   *)
(* is above -9999.  So with a seed of fewer than 4 members the result has  *)
(* exactly min(4, |seed| + |pool|) members, the seed followed by pool      *)
(* items.                                                                  *)
(***************************************************************************)
PoolLen == Len(poolOf(perks, settings, seedOf(perks, settings)))

C21_EveryShiftAppended ==
  (pc = "optimized" /\ SeedLen < BUILD_SIZE) =>
    /\ Len(suggested) = Min2(BUILD_SIZE, SeedLen + PoolLen)
    /\ SubSeq(suggested, 1, SeedLen) = seedOf(perks, settings)
    /\ \A k \in SeedLen..Len(suggested) : \A p \in PoolAt(k) :
         scorePerk(p, Ctx(settings, PartialBuild(k))) > SENTINEL

\* a run that appended a pool item of negative score to a seeded build and
\* stopped with the pool exhausted, short of 4 members
C21_Witness ==
  /\ pc = "optimized"
  /\ SeedLen > 0
  /\ Len(suggested) < BUILD_SIZE
  /\ PoolLen > 0
  /\ \E k \in SeedLen..(Len(suggested) - 1) :
       scorePerk(suggested[k + 1], Ctx(settings, PartialBuild(k))) < 0

(***************************************************************************)
(* C22: scorePerk returns the rejection sentinel -9999 whenever the        *)
(* candidate's role differs from the context's role, or the candidate's    *)
(* normalised name or normalised id equals the normalisation of a banned   *)
(* entry, whatever the other components (tags, synergy, tier, rate, focus) *)
(* would add.                                                              *)
(***************************************************************************)
C22_RejectionSentinel ==
  pc = "scored" =>
    ((input.p.role # input.ctx.role \/ Matches(input.ctx.banned, input.p))
       => output = SENTINEL)

\* a candidate of the context's role, banned by its id alone, holding a
\* selected tag, a tier and a rate, was scored -9999
C22_Witness ==
  /\ pc = "scored"
  /\ input.p.role = input.ctx.role
  /\ \E i \in 1..Len(input.ctx.banned) :
       /\ normalize(input.ctx.banned[i]) = normalize(input.p.id)
       /\ normalize(input.ctx.banned[i]) # normalize(input.p.name)
  /\ tagScore(input.p, input.ctx) > 0
  /\ tierBonus(input.p) > 0
  /\ rateBonus(input.p) > 0
  /\ output = SENTINEL

(***************************************************************************)
(* C23: the anti-synergy component of the score (what the candidate's      *)
(* anti_synergy list changes in its score) is -12 times the number of      *)
(* members of the partial build whose normalised name is in the            *)
(* candidate's own anti_synergy list, and nothing else: a locked name that *)
(* is not in the build adds no penalty, and a member that lists the        *)
(* candidate in its own anti_synergy adds none.                            *)
(***************************************************************************)
AntiNames(p) == {normalize(p.anti_synergy[i]) : i \in 1..Len(p.anti_synergy)}

AntiComponent ==
  output - scorePerk([input.p EXCEPT !.anti_synergy = <<>>], input.ctx)

AntiMembers ==
  {i \in 1..Len(input.ctx.current) :
     normalize(input.ctx.current[i].name) \in AntiNames(input.p)}

C23_AntiSynergy ==
  (pc = "scored" /\ output # SENTINEL) =>
    AntiComponent = -12 * 100 * Cardinality(AntiMembers)

\* a candidate whose anti_synergy names a locked perk that is not in the
\* build was scored: no penalty
C23_Witness ==
  /\ pc = "scored"
  /\ output # SENTINEL
  /\ \E i \in 1..Len(input.ctx.locked) :
       normalize(input.ctx.locked[i]) \in AntiNames(input.p)
  /\ input.ctx.current # <<>>
  /\ AntiMembers = {}
  /\ AntiComponent = 0

(***************************************************************************)
(* C24: the focus bonus is max(0, 14 - (r - 1) * 2), r the rank of the     *)
(* candidate's entry for the focus key (14 at rank 1, 12 at rank 2, 0 from *)
(* rank 8 on), and 0 when the focus key is empty or the candidate has no   *)
(* entry for it; for every stored rank the bonus lies in [0, 14].          *)
(***************************************************************************)
FocusHits ==
  {i \in 1..Len(input.p.topForKillers) :
     input.p.topForKillers[i].slug = input.ctx.killerFocus}

FocusEntry == input.p.topForKillers[CHOOSE i \in FocusHits : \A j \in FocusHits : i <= j]

FocusFormula ==
  pc = "focused" =>
    IF input.ctx.killerFocus = "" \/ FocusHits = {} THEN output = 0
    ELSE "rank" \in DOMAIN FocusEntry =>
           /\ output = Max2(0, 14 - (FocusEntry.rank - 1) * 2) * 100
           /\ FocusEntry.rank = 1 => output = 14 * 100
           /\ FocusEntry.rank = 2 => output = 12 * 100
           /\ FocusEntry.rank >= 8 => output = 0

C24_FocusBonus ==
  /\ FocusFormula
  /\ pc = "focused" => (0 <= output /\ output <= 14 * 100)

(***************************************************************************)
(* C25: the rate bonus is (clamp(rate, 0, 5) - 2.5) * 3 when the perk has  *)
(* a rate and 0 when it has none; for every rate, below 0 and above 5      *)
(* included, it lies in [-7.5, +7.5] and does not decrease when the rate   *)
(* grows.                                                                  *)
(***************************************************************************)
ClampedRate(v) == IF v < 0 THEN 0 ELSE IF v > 500 THEN 500 ELSE v

C25_RateBonus ==
  pc = "rated" =>
    /\ ~input.p.rate.has => output = 0
    /\ input.p.rate.has => output = (ClampedRate(input.p.rate.val) - 250) * 3
    /\ -750 <= output /\ output <= 750
    /\ input.p.rate.has =>
         \A v \in RateValues :
            v <= input.p.rate.val =>
              rateBonus([input.p EXCEPT !.rate = Rate(v)]) <= output

\* a rate above 5 got the bonus of rate 5
C25_Witness ==
  /\ pc = "rated"
  /\ input.p.rate.has
  /\ input.p.rate.val > 500
  /\ output = 750

(***************************************************************************)
(* C26: runOptimize and makeRandomBuild have no error outcome.  When the   *)
(* catalog holds no item of the requested role that is not banned (and,    *)
(* for runOptimize, no locked item that is not banned) the build returned  *)
(* is empty, and a build never has more members than the catalog has       *)
(* items to supply: a pool of fewer than 4 gives a shorter build.          *)
(***************************************************************************)
Suppliers == ValidLocked \cup RolePool(settings.role)

C26_EmptyNotError ==
  /\ pc = "optimized" =>
       /\ Suppliers = {} => suggested = <<>>
       /\ Len(suggested) <= Cardinality(Suppliers)
  /\ pc = "randomised" =>
       /\ RolePool(randRole) = {} => randBuild = <<>>
       /\ Len(randBuild) <= Cardinality(RolePool(randRole))

\* the optimizer ran on a catalog that has items, none of them of the role
\* and not banned, and returned the empty build
C26_Witness ==
  /\ pc = "optimized"
  /\ perks # <<>>
  /\ \E i \in 1..Len(perks) :
       perks[i].role = settings.role /\ Matches(settings.banned, perks[i])
  /\ Suppliers = {}
  /\ suggested = <<>>

(***************************************************************************)
(* C27: during load, when readCache returns a dataset (the entry exists,   *)
(* parses and is not older than the TTL) that dataset is used, no API or   *)
(* /perks.json request is made and the cache is not rewritten; when the    *)
(* entry is missing, unreadable or older than the TTL the API is fetched.  *)
(* The cache is written only with the dataset of a successful API fetch,   *)
(* never with /perks.json or the embedded dataset.                         *)
(***************************************************************************)
CacheExpired ==
  cache.kind = "entry" /\ cache.savedAtIsNumber /\ now - cache.savedAt > API_TTL_MS

CacheUsable ==
  cache.kind = "entry" /\ cache.dataset # NoDataset /\ ~CacheExpired

\* the step that reads the cache
CacheReadStep ==
  pc = "load_start" /\ pc' # "load_start" =>
    /\ CacheUsable =>
         dataset' = cache.dataset /\ pc' = "load_done" /\ cache' = cache
    /\ (cache = NoCache \/ cache = CorruptCache \/ CacheExpired) =>
         pc' = "await_api" /\ dataset' = NoDataset

\* a step that writes the cache
CacheWriteStep ==
  cache' # cache =>
    /\ pc = "await_killer_data"
    /\ dataset' = ApiDataset
    /\ cache' = CacheEntry(TRUE, now, ApiDataset)

\* after a cache hit nothing else is tried
CacheHitIsFinal ==
  (attempts # <<>> /\ attempts[1].ok) =>
    pc = "load_done" /\ attempts = <<Attempt("cache", TRUE)>>

NoPerkInBoth ==
  \A i \in 1..Len(perks) :
     ~(Matches(settings.locked, perks[i]) /\ Matches(settings.banned, perks[i]))

NotMatching(entries, p) == SelectSeq(entries, LAMBDA e : ~Matches(<<e>>, p))

OtherFieldsKept ==
  /\ settings'.role = settings.role
  /\ settings'.selectedTags = settings.selectedTags
  /\ settings'.killerFocus = settings.killerFocus

\* a step that adds an entry to locked is a Lock(p)
LockedGrows ==
  Len(settings'.locked) > Len(settings.locked) =>
    \E i \in 1..Len(perks) :
       /\ settings'.locked = Append(settings.locked, perks[i].name)
       /\ settings'.banned = NotMatching(settings.banned, perks[i])

\* a step that adds an entry to banned is a Ban(p)
BannedGrows ==
  Len(settings'.banned) > Len(settings.banned) =>
    \E i \in 1..Len(perks) :
       /\ settings'.banned = Append(settings.banned, perks[i].name)
       /\ settings'.locked = NotMatching(settings.locked, perks[i])

C28_LockBanExclusive ==
  /\ []NoPerkInBoth
  /\ [][OtherFieldsKept /\ LockedGrows /\ BannedGrows]_vars

\* both perks have changed sides since the suggestion on screen was
\* computed: Alpha, banned then, is locked, and Beta, in the build then, is
\* banned
C28_Witness ==
  /\ suggested = <<pBeta>>
  /\ settings.locked = <<N_Alpha>>
  /\ settings.banned = <<N_Beta>>

(***************************************************************************)
(* C29: whenever no callback is pending (no effect to run, no timer        *)
(* outstanding) the suggestion on screen is the greedy selection of the    *)
(* current role, selected tags, locked list, banned list, killer focus and *)
(* catalog: a "Generate build" click never leaves on screen a result       *)
(* computed from the settings of the click when they changed before the    *)
(* timer fired.                                                            *)
(***************************************************************************)
Quiescent == timers = {} /\ ~effectPending

C29_SuggestionCurrent ==
  Quiescent => suggested = runOptimize(perks, settings)

(***************************************************************************)
(* C30: booting is true initially; it becomes false only in a state where  *)
(* the dataset is non-null and the minimum boot delay has elapsed; it      *)
(* never returns to true; and it does become false once both hold, in      *)
(* whichever order the load and the timer complete (as long as the         *)
(* component is mounted).                                                  *)
(***************************************************************************)
BootReady == dataset # NoDataset /\ minElapsed

C30_BootOverlay ==
  /\ booting = TRUE
  /\ [](~booting => BootReady)
  /\ [][booting' # booting => (booting /\ BootReady /\ BootReady')]_vars
  /\ [][~booting => ~booting']_vars
  /\ (BootReady ~> (~booting \/ ~alive))

\* the overlay is gone after a load that ended with the embedded dataset
C30_Witness ==
  /\ pc = "load_done"
  /\ dataset = FALLBACK
  /\ minElapsed
  /\ ~booting

====
